---- MODULE Spec2Model ----
(***************************************************************************)
(* Model of the llama.cpp JNI bridge (app/src/main/cpp/llama_bridge.cpp).  *)
(*                                                                         *)
(* The bridge keeps two process-wide handles, g_model and g_ctx, and       *)
(* exposes loadModel, unloadModel, chatCompletion, chatCompletionStream.   *)
(* Spec: calls are serialized, every action is one whole JNI call.         *)
(* SpecConc: two threads call the entry points with no lock, every read    *)
(* and write of a global and every native call is a step.  The             *)
(* native library is external; whether llama_model_load_from_file and      *)
(* llama_init_from_model return a handle or nullptr is a nondeterministic  *)
(* choice of the environment.  Native handles are modelled as fresh        *)
(* positive integers, nullptr as 0.                                        *)
(***************************************************************************)
EXTENDS Integers, Sequences, FiniteSets, TLC

\* ---- bounds ----
MaxCalls == 5
\* JNI calls started in a run of the two-thread specification
MaxConcCalls == 3

\* ---- values ----
NULL == 0
\* g_model / g_ctx are declared only #if LLAMA_AVAILABLE; in a build without
\* the library the globals do not exist.
Undeclared == -1

Paths == {"model.gguf", "missing.gguf"}
CtxSizes == {2048, 4096}
Requests == {"{\"messages\":[{\"role\":\"user\",\"content\":\"hi\"}]}", ""}

VARIABLES
    LLAMA_AVAILABLE,  \* build variant: 1 when llama.h was found, else 0
    g_model,          \* static llama_model *g_model
    g_ctx,            \* static llama_context *g_ctx
    liveModels,       \* native model handles created and not yet freed
    liveCtxs,         \* native context handles created and not yet freed
    ctxModel,         \* pairs <<ctx, model>>: the model a context was built from
    nextHandle,       \* next fresh native handle
    backendInits,     \* number of llama_backend_init calls so far
    backendFrees,     \* number of llama_backend_free calls so far
    nativeCalls,      \* native library calls made by the most recent JNI call
    lastOp,           \* most recent JNI call
    retLoad,          \* return value of the most recent loadModel
    retChat,          \* return value of the most recent chatCompletion
    callbacks,        \* callback invocations of the most recent chatCompletionStream
    lastLoad,         \* outcome of the most recent loadModel call
    unloadedSince,    \* unloadModel was called after the most recent loadModel
    nCalls,           \* number of JNI calls made
    \* -- used by the two-thread specification only --
    pc,               \* per thread: the statement it is about to execute
    regModel,         \* per thread: the llama_model* value it holds in a register
    regCtx,           \* per thread: the llama_context* value it holds in a register
    started,          \* number of JNI calls started by the threads
    overlapped,       \* a call was started while the other thread was inside a call
    doubleFree,       \* a handle that was not alive was passed to a free function
    freedUnderCtx     \* a model was freed while a context built from it was alive

vars == <<LLAMA_AVAILABLE, g_model, g_ctx, liveModels, liveCtxs, ctxModel,
          nextHandle, backendInits, backendFrees, nativeCalls, lastOp,
          retLoad, retChat, callbacks, lastLoad, unloadedSince, nCalls,
          pc, regModel, regCtx, started, overlapped, doubleFree, freedUnderCtx>>

Threads == {1, 2}

threadVars == <<pc, regModel, regCtx, started, overlapped, doubleFree,
                freedUnderCtx>>

\* ---- payloads ----
NoPayload == [none |-> TRUE]

Call(fn, h) == [fn |-> fn, h |-> h]

Init ==
    /\ LLAMA_AVAILABLE \in {0, 1}
    /\ g_model = IF LLAMA_AVAILABLE = 1 THEN NULL ELSE Undeclared
    /\ g_ctx = IF LLAMA_AVAILABLE = 1 THEN NULL ELSE Undeclared
    /\ liveModels = {}
    /\ liveCtxs = {}
    /\ ctxModel = {}
    /\ nextHandle = 1
    /\ backendInits = 0
    /\ backendFrees = 0
    /\ nativeCalls = <<>>
    /\ lastOp = "none"
    /\ retLoad = FALSE
    /\ retChat = NoPayload
    /\ callbacks = <<>>
    /\ lastLoad = "none"
    /\ unloadedSince = FALSE
    /\ nCalls = 0
    /\ pc = [t \in Threads |-> "idle"]
    /\ regModel = [t \in Threads |-> NULL]
    /\ regCtx = [t \in Threads |-> NULL]
    /\ started = 0
    /\ overlapped = FALSE
    /\ doubleFree = FALSE
    /\ freedUnderCtx = FALSE

\* Bookkeeping common to every JNI call.
Called(op) ==
    /\ lastOp' = op
    /\ nCalls' = nCalls + 1
    /\ UNCHANGED threadVars

\* ---- loadModel ----
\* Variant: the model is loaded into a local and g_model is assigned only on
\* success, so a failed model load leaves the previous pair in place.
LoadModelFails_KeepOld ==
    /\ UNCHANGED <<g_model, g_ctx, liveModels, liveCtxs, ctxModel, nextHandle>>
    /\ nativeCalls' = <<Call("llama_backend_init", NULL),
                        Call("llama_model_load_from_file", NULL)>>
    /\ retLoad' = FALSE
    /\ lastLoad' = "false_model"

\* llama_model_load_from_file returned nullptr: g_model is overwritten with
\* nullptr and the call returns JNI_FALSE; g_ctx is not touched.
LoadModelFails ==
    /\ g_model' = NULL
    /\ UNCHANGED <<g_ctx, liveModels, liveCtxs, ctxModel, nextHandle>>
    /\ nativeCalls' = <<Call("llama_backend_init", NULL),
                        Call("llama_model_load_from_file", NULL)>>
    /\ retLoad' = FALSE
    /\ lastLoad' = "false_model"

\* Variant: the `if (!g_ctx)` test is missing, so a failed context creation
\* falls through to `return JNI_TRUE` with the model kept.
LoadContextFails_NoCheck ==
    LET m == nextHandle IN
    /\ g_ctx' = NULL
    /\ g_model' = m
    /\ liveModels' = liveModels \cup {m}
    /\ UNCHANGED <<liveCtxs, ctxModel>>
    /\ nextHandle' = nextHandle + 1
    /\ nativeCalls' = <<Call("llama_backend_init", NULL),
                        Call("llama_model_load_from_file", m),
                        Call("llama_init_from_model", NULL)>>
    /\ retLoad' = TRUE
    /\ lastLoad' = "true"

\* The model loaded but llama_init_from_model returned nullptr: g_ctx is
\* overwritten with nullptr, the new model is freed, g_model is reset.
LoadContextFails ==
    LET m == nextHandle IN
    /\ g_ctx' = NULL
    /\ g_model' = NULL
    /\ liveModels' = (liveModels \cup {m}) \ {m}
    /\ UNCHANGED <<liveCtxs, ctxModel>>
    /\ nextHandle' = nextHandle + 1
    /\ nativeCalls' = <<Call("llama_backend_init", NULL),
                        Call("llama_model_load_from_file", m),
                        Call("llama_init_from_model", NULL),
                        Call("llama_model_free", m)>>
    /\ retLoad' = FALSE
    /\ lastLoad' = "false_ctx"

\* Both steps succeeded: the globals are overwritten with the new handles.
LoadSucceeds ==
    LET m == nextHandle
        c == nextHandle + 1 IN
    /\ g_model' = m
    /\ g_ctx' = c
    /\ liveModels' = liveModels \cup {m}
    /\ liveCtxs' = liveCtxs \cup {c}
    /\ ctxModel' = ctxModel \cup {<<c, m>>}
    /\ nextHandle' = nextHandle + 2
    /\ nativeCalls' = <<Call("llama_backend_init", NULL),
                        Call("llama_model_load_from_file", m),
                        Call("llama_init_from_model", c)>>
    /\ retLoad' = TRUE
    /\ lastLoad' = "true"

loadModel ==
    /\ nCalls < MaxCalls
    /\ Called("loadModel")
    /\ \E path \in Paths, nCtx \in CtxSizes, modelOk \in BOOLEAN, ctxOk \in BOOLEAN :
        IF LLAMA_AVAILABLE = 1
        THEN /\ backendInits' = backendInits + 1
             /\ IF ~modelOk THEN LoadModelFails
                ELSE IF ~ctxOk THEN LoadContextFails
                ELSE LoadSucceeds
        ELSE /\ UNCHANGED <<g_model, g_ctx, liveModels, liveCtxs, ctxModel,
                            nextHandle, backendInits>>
             /\ nativeCalls' = <<>>
             /\ retLoad' = FALSE
             /\ lastLoad' = "false_nolib"
    /\ unloadedSince' = FALSE
    /\ retChat' = NoPayload
    /\ callbacks' = <<>>
    /\ UNCHANGED <<LLAMA_AVAILABLE, backendFrees>>

\* ---- unloadModel ----
\* What unloadModel does to the handles in a build with the library.
\* Variant: the `if (g_ctx)` / `if (g_model)` tests are missing, so the free
\* functions are called on whatever the globals hold.
ReleaseHandles_NoNullCheck ==
    /\ liveCtxs' = liveCtxs \ {g_ctx}
    /\ g_ctx' = NULL
    /\ liveModels' = liveModels \ {g_model}
    /\ g_model' = NULL
    /\ backendFrees' = backendFrees + 1
    /\ nativeCalls' = <<Call("llama_free", g_ctx),
                        Call("llama_model_free", g_model),
                        Call("llama_backend_free", NULL)>>

\* Variant: the model is released before the context.
ReleaseHandles_ModelFirst ==
    LET freeCtx == IF g_ctx # NULL
                   THEN <<Call("llama_free", g_ctx)>> ELSE <<>>
        freeModel == IF g_model # NULL
                     THEN <<Call("llama_model_free", g_model)>> ELSE <<>>
    IN
    /\ liveModels' = IF g_model # NULL THEN liveModels \ {g_model}
                     ELSE liveModels
    /\ g_model' = NULL
    /\ liveCtxs' = IF g_ctx # NULL THEN liveCtxs \ {g_ctx} ELSE liveCtxs
    /\ g_ctx' = NULL
    /\ backendFrees' = backendFrees + 1
    /\ nativeCalls' = freeModel \o freeCtx
                        \o <<Call("llama_backend_free", NULL)>>

\* Variant: `g_ctx = nullptr` after llama_free is missing.
ReleaseHandles_KeepCtx ==
    LET freeCtx == IF g_ctx # NULL
                   THEN <<Call("llama_free", g_ctx)>> ELSE <<>>
        freeModel == IF g_model # NULL
                     THEN <<Call("llama_model_free", g_model)>> ELSE <<>>
    IN
    /\ liveCtxs' = IF g_ctx # NULL THEN liveCtxs \ {g_ctx} ELSE liveCtxs
    /\ g_ctx' = g_ctx
    /\ liveModels' = IF g_model # NULL THEN liveModels \ {g_model}
                     ELSE liveModels
    /\ g_model' = NULL
    /\ backendFrees' = backendFrees + 1
    /\ nativeCalls' = freeCtx \o freeModel
                        \o <<Call("llama_backend_free", NULL)>>

ReleaseHandles ==
    LET freeCtx == IF g_ctx # NULL
                   THEN <<Call("llama_free", g_ctx)>> ELSE <<>>
        freeModel == IF g_model # NULL
                     THEN <<Call("llama_model_free", g_model)>> ELSE <<>>
    IN
    /\ liveCtxs' = IF g_ctx # NULL THEN liveCtxs \ {g_ctx} ELSE liveCtxs
    /\ g_ctx' = NULL
    /\ liveModels' = IF g_model # NULL THEN liveModels \ {g_model}
                     ELSE liveModels
    /\ g_model' = NULL
    /\ backendFrees' = backendFrees + 1
    /\ nativeCalls' = freeCtx \o freeModel
                        \o <<Call("llama_backend_free", NULL)>>

unloadModel ==
    /\ nCalls < MaxCalls
    /\ Called("unloadModel")
    /\ IF LLAMA_AVAILABLE = 1
       THEN ReleaseHandles
       ELSE /\ UNCHANGED <<g_model, g_ctx, liveModels, liveCtxs, backendFrees>>
            /\ nativeCalls' = <<>>
    /\ unloadedSince' = TRUE
    /\ retChat' = NoPayload
    /\ callbacks' = <<>>
    /\ UNCHANGED <<LLAMA_AVAILABLE, ctxModel, nextHandle, backendInits,
                   retLoad, lastLoad>>

\* ---- chatCompletion ----
ErrorPayload(msg) == [error |-> msg]

ChatResponse ==
    [id |-> "local-0",
     object |-> "chat.completion",
     model |-> "qwen3-4b",
     choices |-> <<[index |-> 0,
                    message |-> [role |-> "assistant",
                                 content |-> "Local model inference is not yet fully implemented."],
                    finish_reason |-> "stop"]>>,
     usage |-> [prompt_tokens |-> 0, completion_tokens |-> 0, total_tokens |-> 0]]

\* Variant: the guard is `!g_model && !g_ctx`.
ChatCompletionResult_AndGuard(avail, model, ctx) ==
    IF avail = 1
    THEN IF model = NULL /\ ctx = NULL
         THEN ErrorPayload("Model not loaded")
         ELSE ChatResponse
    ELSE ErrorPayload("llama.cpp not available in this build")

\* The string chatCompletion returns, as a function of the build variant and
\* the two globals it reads.
ChatCompletionResult(avail, model, ctx) ==
    IF avail = 1
    THEN IF model = NULL \/ ctx = NULL
         THEN ErrorPayload("Model not loaded")
         ELSE ChatResponse
    ELSE ErrorPayload("llama.cpp not available in this build")

\* Variant: chatCompletion initializes the backend itself before answering.
chatCompletion_LazyInit ==
    /\ nCalls < MaxCalls
    /\ Called("chatCompletion")
    /\ \E requestJson \in Requests :
        retChat' = ChatCompletionResult(LLAMA_AVAILABLE, g_model, g_ctx)
    /\ nativeCalls' = <<Call("llama_backend_init", NULL)>>
    /\ backendInits' = backendInits + 1
    /\ callbacks' = <<>>
    /\ UNCHANGED <<LLAMA_AVAILABLE, g_model, g_ctx, liveModels, liveCtxs,
                   ctxModel, nextHandle, backendFrees,
                   retLoad, lastLoad, unloadedSince>>

chatCompletion ==
    /\ nCalls < MaxCalls
    /\ Called("chatCompletion")
    /\ \E requestJson \in Requests :
        retChat' = ChatCompletionResult(LLAMA_AVAILABLE, g_model, g_ctx)
    /\ nativeCalls' = <<>>
    /\ callbacks' = <<>>
    /\ UNCHANGED <<LLAMA_AVAILABLE, g_model, g_ctx, liveModels, liveCtxs,
                   ctxModel, nextHandle, backendInits, backendFrees,
                   retLoad, lastLoad, unloadedSince>>

\* ---- chatCompletionStream ----
Callback(method, arg) == [method |-> method, arg |-> arg]

StreamResponse ==
    [id |-> "local-stream-0",
     object |-> "chat.completion",
     model |-> "qwen3-4b",
     choices |-> <<[index |-> 0,
                    message |-> [role |-> "assistant",
                                 content |-> "Local model streaming is not yet fully implemented."],
                    finish_reason |-> "stop"]>>]

StreamSuccess ==
    <<Callback("onToken", "Local model streaming is not yet fully implemented."),
      Callback("onComplete", StreamResponse)>>

\* Variant: the `return` after onError is missing.
StreamCallbacks_NoReturn(avail, model, ctx) ==
    IF avail = 1
    THEN IF model = NULL \/ ctx = NULL
         THEN <<Callback("onError", "Model not loaded")>> \o StreamSuccess
         ELSE StreamSuccess
    ELSE <<Callback("onError", "llama.cpp not available")>>

\* Variant: the guard tests only g_ctx.
StreamCallbacks_CtxOnly(avail, model, ctx) ==
    IF avail = 1
    THEN IF ctx = NULL
         THEN <<Callback("onError", "Model not loaded")>>
         ELSE StreamSuccess
    ELSE <<Callback("onError", "llama.cpp not available")>>

\* Variant: the build without the library reuses the not-loaded message.
StreamCallbacks_SameMessage(avail, model, ctx) ==
    IF avail = 1
    THEN IF model = NULL \/ ctx = NULL
         THEN <<Callback("onError", "Model not loaded")>>
         ELSE StreamSuccess
    ELSE <<Callback("onError", "Model not loaded")>>

\* Variant: the placeholder onToken call is missing.
StreamCallbacks_NoToken(avail, model, ctx) ==
    IF avail = 1
    THEN IF model = NULL \/ ctx = NULL
         THEN <<Callback("onError", "Model not loaded")>>
         ELSE <<Callback("onComplete", StreamResponse)>>
    ELSE <<Callback("onError", "llama.cpp not available")>>

\* The callback invocations chatCompletionStream makes, in order, as a
\* function of the build variant and the two globals it reads.
StreamCallbacks(avail, model, ctx) ==
    IF avail = 1
    THEN IF model = NULL \/ ctx = NULL
         THEN <<Callback("onError", "Model not loaded")>>
         ELSE StreamSuccess
    ELSE <<Callback("onError", "llama.cpp not available")>>

chatCompletionStream ==
    /\ nCalls < MaxCalls
    /\ Called("chatCompletionStream")
    /\ \E requestJson \in Requests :
        callbacks' = StreamCallbacks(LLAMA_AVAILABLE, g_model, g_ctx)
    /\ nativeCalls' = <<>>
    /\ retChat' = NoPayload
    /\ UNCHANGED <<LLAMA_AVAILABLE, g_model, g_ctx, liveModels, liveCtxs,
                   ctxModel, nextHandle, backendInits, backendFrees,
                   retLoad, lastLoad, unloadedSince>>

Next ==
    \/ loadModel
    \/ unloadModel
    \/ chatCompletion
    \/ chatCompletionStream

Spec == Init /\ [][Next]_vars

\* ---- two threads, no lock ----
\* The same four entry points called from two threads.  Nothing in the bridge
\* synchronizes them, so every read and every write of g_model / g_ctx and
\* every native call is a step of its own.  The unsynchronized accesses are a
\* data race: where a statement uses a global the thread has read or written
\* before, the build may re-read the global or reuse the value it still holds
\* in a register, so both outcomes are possible.
observed == <<LLAMA_AVAILABLE, nativeCalls, lastOp, retLoad, retChat,
              callbacks, lastLoad, unloadedSince, nCalls>>

Goto(t, label) == pc' = [pc EXCEPT ![t] = label]

\* llama_free(h)
FreeCtx(h) ==
    /\ liveCtxs' = liveCtxs \ {h}
    /\ doubleFree' = (doubleFree \/ (h # NULL /\ h \notin liveCtxs))
    /\ UNCHANGED <<liveModels, freedUnderCtx>>

\* llama_model_free(h)
FreeModel(h) ==
    /\ liveModels' = liveModels \ {h}
    /\ doubleFree' = (doubleFree \/ (h # NULL /\ h \notin liveModels))
    /\ freedUnderCtx' = (freedUnderCtx
                            \/ \E c \in liveCtxs : <<c, h>> \in ctxModel)
    /\ UNCHANGED liveCtxs

\* A thread enters one of the entry points.
BeginCall(t) ==
    /\ pc[t] = "idle"
    /\ started < MaxConcCalls
    /\ started' = started + 1
    /\ overlapped' = (overlapped \/ \E u \in Threads \ {t} : pc[u] # "idle")
    /\ \E op \in {"l_load", "u_test_ctx", "c_test_model"} : Goto(t, op)
    /\ UNCHANGED <<g_model, g_ctx, liveModels, liveCtxs, ctxModel, nextHandle,
                   backendInits, backendFrees, regModel, regCtx, doubleFree,
                   freedUnderCtx, observed>>

\* -- unloadModel --
\* if (g_ctx)
UTestCtx(t) ==
    /\ pc[t] = "u_test_ctx"
    /\ regCtx' = [regCtx EXCEPT ![t] = g_ctx]
    /\ Goto(t, IF g_ctx # NULL THEN "u_arg_ctx" ELSE "u_test_model")
    /\ UNCHANGED <<g_model, g_ctx, liveModels, liveCtxs, ctxModel, nextHandle,
                   backendInits, backendFrees, regModel, started, overlapped,
                   doubleFree, freedUnderCtx, observed>>

\* the argument of llama_free(g_ctx)
UArgCtx(t) ==
    /\ pc[t] = "u_arg_ctx"
    /\ \E v \in {regCtx[t], g_ctx} : regCtx' = [regCtx EXCEPT ![t] = v]
    /\ Goto(t, "u_free_ctx")
    /\ UNCHANGED <<g_model, g_ctx, liveModels, liveCtxs, ctxModel, nextHandle,
                   backendInits, backendFrees, regModel, started, overlapped,
                   doubleFree, freedUnderCtx, observed>>

\* llama_free(...)
UFreeCtx(t) ==
    /\ pc[t] = "u_free_ctx"
    /\ FreeCtx(regCtx[t])
    /\ Goto(t, "u_null_ctx")
    /\ UNCHANGED <<g_model, g_ctx, ctxModel, nextHandle, backendInits,
                   backendFrees, regModel, regCtx, started, overlapped,
                   observed>>

\* Variant: `g_ctx = nullptr` is missing.
UNullCtx_Keep(t) ==
    /\ pc[t] = "u_null_ctx"
    /\ Goto(t, "u_test_model")
    /\ UNCHANGED <<g_model, g_ctx, liveModels, liveCtxs, ctxModel, nextHandle,
                   backendInits, backendFrees, regModel, regCtx, started,
                   overlapped, doubleFree, freedUnderCtx, observed>>

\* g_ctx = nullptr
UNullCtx(t) ==
    /\ pc[t] = "u_null_ctx"
    /\ g_ctx' = NULL
    /\ Goto(t, "u_test_model")
    /\ UNCHANGED <<g_model, liveModels, liveCtxs, ctxModel, nextHandle,
                   backendInits, backendFrees, regModel, regCtx, started,
                   overlapped, doubleFree, freedUnderCtx, observed>>

\* if (g_model)
UTestModel(t) ==
    /\ pc[t] = "u_test_model"
    /\ regModel' = [regModel EXCEPT ![t] = g_model]
    /\ Goto(t, IF g_model # NULL THEN "u_arg_model" ELSE "u_backend")
    /\ UNCHANGED <<g_model, g_ctx, liveModels, liveCtxs, ctxModel, nextHandle,
                   backendInits, backendFrees, regCtx, started, overlapped,
                   doubleFree, freedUnderCtx, observed>>

\* the argument of llama_model_free(g_model)
UArgModel(t) ==
    /\ pc[t] = "u_arg_model"
    /\ \E v \in {regModel[t], g_model} : regModel' = [regModel EXCEPT ![t] = v]
    /\ Goto(t, "u_free_model")
    /\ UNCHANGED <<g_model, g_ctx, liveModels, liveCtxs, ctxModel, nextHandle,
                   backendInits, backendFrees, regCtx, started, overlapped,
                   doubleFree, freedUnderCtx, observed>>

\* llama_model_free(...)
UFreeModel(t) ==
    /\ pc[t] = "u_free_model"
    /\ FreeModel(regModel[t])
    /\ Goto(t, "u_null_model")
    /\ UNCHANGED <<g_model, g_ctx, ctxModel, nextHandle, backendInits,
                   backendFrees, regModel, regCtx, started, overlapped,
                   observed>>

\* g_model = nullptr
UNullModel(t) ==
    /\ pc[t] = "u_null_model"
    /\ g_model' = NULL
    /\ Goto(t, "u_backend")
    /\ UNCHANGED <<g_ctx, liveModels, liveCtxs, ctxModel, nextHandle,
                   backendInits, backendFrees, regModel, regCtx, started,
                   overlapped, doubleFree, freedUnderCtx, observed>>

\* llama_backend_free(); return
UBackendFree(t) ==
    /\ pc[t] = "u_backend"
    /\ backendFrees' = backendFrees + 1
    /\ Goto(t, "idle")
    /\ UNCHANGED <<g_model, g_ctx, liveModels, liveCtxs, ctxModel, nextHandle,
                   backendInits, regModel, regCtx, started, overlapped,
                   doubleFree, freedUnderCtx, observed>>

\* -- loadModel --
\* llama_backend_init(); llama_model_load_from_file(path, model_params)
LLoad(t) ==
    /\ pc[t] = "l_load"
    /\ backendInits' = backendInits + 1
    /\ \E modelOk \in BOOLEAN :
        IF modelOk
        THEN /\ regModel' = [regModel EXCEPT ![t] = nextHandle]
             /\ liveModels' = liveModels \cup {nextHandle}
             /\ nextHandle' = nextHandle + 1
        ELSE /\ regModel' = [regModel EXCEPT ![t] = NULL]
             /\ UNCHANGED <<liveModels, nextHandle>>
    /\ Goto(t, "l_store_model")
    /\ UNCHANGED <<g_model, g_ctx, liveCtxs, ctxModel, backendFrees, regCtx,
                   started, overlapped, doubleFree, freedUnderCtx, observed>>

\* g_model = ...
LStoreModel(t) ==
    /\ pc[t] = "l_store_model"
    /\ g_model' = regModel[t]
    /\ Goto(t, "l_test_model")
    /\ UNCHANGED <<g_ctx, liveModels, liveCtxs, ctxModel, nextHandle,
                   backendInits, backendFrees, regModel, regCtx, started,
                   overlapped, doubleFree, freedUnderCtx, observed>>

\* if (!g_model) return JNI_FALSE
LTestModel(t) ==
    /\ pc[t] = "l_test_model"
    /\ \E v \in {regModel[t], g_model} :
        /\ regModel' = [regModel EXCEPT ![t] = v]
        /\ Goto(t, IF v = NULL THEN "idle" ELSE "l_arg_model")
    /\ UNCHANGED <<g_model, g_ctx, liveModels, liveCtxs, ctxModel, nextHandle,
                   backendInits, backendFrees, regCtx, started, overlapped,
                   doubleFree, freedUnderCtx, observed>>

\* the argument of llama_init_from_model(g_model, ctx_params)
LArgModel(t) ==
    /\ pc[t] = "l_arg_model"
    /\ \E v \in {regModel[t], g_model} : regModel' = [regModel EXCEPT ![t] = v]
    /\ Goto(t, "l_init_ctx")
    /\ UNCHANGED <<g_model, g_ctx, liveModels, liveCtxs, ctxModel, nextHandle,
                   backendInits, backendFrees, regCtx, started, overlapped,
                   doubleFree, freedUnderCtx, observed>>

\* llama_init_from_model(...): a context built from the model passed in, or
\* nullptr (always nullptr for a null model).
LInitCtx(t) ==
    /\ pc[t] = "l_init_ctx"
    /\ \E ctxOk \in BOOLEAN :
        IF ctxOk /\ regModel[t] # NULL
        THEN /\ regCtx' = [regCtx EXCEPT ![t] = nextHandle]
             /\ liveCtxs' = liveCtxs \cup {nextHandle}
             /\ ctxModel' = ctxModel \cup {<<nextHandle, regModel[t]>>}
             /\ nextHandle' = nextHandle + 1
        ELSE /\ regCtx' = [regCtx EXCEPT ![t] = NULL]
             /\ UNCHANGED <<liveCtxs, ctxModel, nextHandle>>
    /\ Goto(t, "l_store_ctx")
    /\ UNCHANGED <<g_model, g_ctx, liveModels, backendInits, backendFrees,
                   regModel, started, overlapped, doubleFree, freedUnderCtx,
                   observed>>

\* g_ctx = ...
LStoreCtx(t) ==
    /\ pc[t] = "l_store_ctx"
    /\ g_ctx' = regCtx[t]
    /\ Goto(t, "l_test_ctx")
    /\ UNCHANGED <<g_model, liveModels, liveCtxs, ctxModel, nextHandle,
                   backendInits, backendFrees, regModel, regCtx, started,
                   overlapped, doubleFree, freedUnderCtx, observed>>

\* if (!g_ctx) ... else return JNI_TRUE
LTestCtx(t) ==
    /\ pc[t] = "l_test_ctx"
    /\ \E v \in {regCtx[t], g_ctx} :
        /\ regCtx' = [regCtx EXCEPT ![t] = v]
        /\ Goto(t, IF v = NULL THEN "l_arg_free" ELSE "idle")
    /\ UNCHANGED <<g_model, g_ctx, liveModels, liveCtxs, ctxModel, nextHandle,
                   backendInits, backendFrees, regModel, started, overlapped,
                   doubleFree, freedUnderCtx, observed>>

\* the argument of llama_model_free(g_model)
LArgFree(t) ==
    /\ pc[t] = "l_arg_free"
    /\ \E v \in {regModel[t], g_model} : regModel' = [regModel EXCEPT ![t] = v]
    /\ Goto(t, "l_free_model")
    /\ UNCHANGED <<g_model, g_ctx, liveModels, liveCtxs, ctxModel, nextHandle,
                   backendInits, backendFrees, regCtx, started, overlapped,
                   doubleFree, freedUnderCtx, observed>>

\* llama_model_free(...)
LFreeModel(t) ==
    /\ pc[t] = "l_free_model"
    /\ FreeModel(regModel[t])
    /\ Goto(t, "l_null_model")
    /\ UNCHANGED <<g_model, g_ctx, ctxModel, nextHandle, backendInits,
                   backendFrees, regModel, regCtx, started, overlapped,
                   observed>>

\* g_model = nullptr; return JNI_FALSE
LNullModel(t) ==
    /\ pc[t] = "l_null_model"
    /\ g_model' = NULL
    /\ Goto(t, "idle")
    /\ UNCHANGED <<g_ctx, liveModels, liveCtxs, ctxModel, nextHandle,
                   backendInits, backendFrees, regModel, regCtx, started,
                   overlapped, doubleFree, freedUnderCtx, observed>>

\* -- chatCompletion / chatCompletionStream: the guard `!g_model || !g_ctx` --
\* !g_model
CTestModel(t) ==
    /\ pc[t] = "c_test_model"
    /\ regModel' = [regModel EXCEPT ![t] = g_model]
    /\ Goto(t, IF g_model = NULL THEN "idle" ELSE "c_test_ctx")
    /\ UNCHANGED <<g_model, g_ctx, liveModels, liveCtxs, ctxModel, nextHandle,
                   backendInits, backendFrees, regCtx, started, overlapped,
                   doubleFree, freedUnderCtx, observed>>

\* !g_ctx, then the reply; neither handle is dereferenced
CTestCtx(t) ==
    /\ pc[t] = "c_test_ctx"
    /\ regCtx' = [regCtx EXCEPT ![t] = g_ctx]
    /\ Goto(t, "idle")
    /\ UNCHANGED <<g_model, g_ctx, liveModels, liveCtxs, ctxModel, nextHandle,
                   backendInits, backendFrees, regModel, started, overlapped,
                   doubleFree, freedUnderCtx, observed>>

InitConc ==
    /\ Init
    /\ LLAMA_AVAILABLE = 1

NextConc ==
    \E t \in Threads :
        \/ BeginCall(t)
        \/ UTestCtx(t)
        \/ UArgCtx(t)
        \/ UFreeCtx(t)
        \/ UNullCtx(t)
        \/ UTestModel(t)
        \/ UArgModel(t)
        \/ UFreeModel(t)
        \/ UNullModel(t)
        \/ UBackendFree(t)
        \/ LLoad(t)
        \/ LStoreModel(t)
        \/ LTestModel(t)
        \/ LArgModel(t)
        \/ LInitCtx(t)
        \/ LStoreCtx(t)
        \/ LTestCtx(t)
        \/ LArgFree(t)
        \/ LFreeModel(t)
        \/ LNullModel(t)
        \/ CTestModel(t)
        \/ CTestCtx(t)

SpecConc == InitConc /\ [][NextConc]_vars

\* ---- derived notions used by the properties ----
\* The calls among cs that release a native handle.
HandleFrees(cs) ==
    SelectSeq(cs, LAMBDA c : c.fn \in {"llama_free", "llama_model_free"})

NotLoadedPayload == ErrorPayload("Model not loaded")
NotLoadedCallbacks == <<Callback("onError", "Model not loaded")>>

\* A success-shaped response: a choices array whose first message has role
\* "assistant" and a content string, and no error key.
SuccessShaped(r) ==
    /\ "choices" \in DOMAIN r
    /\ "error" \notin DOMAIN r
    /\ Len(r.choices) >= 1
    /\ r.choices[1].message.role = "assistant"
    /\ "content" \in DOMAIN r.choices[1].message
    /\ r.choices[1].message.content \in STRING

TokensThenComplete(cb) ==
    /\ Len(cb) >= 1
    /\ cb[Len(cb)].method = "onComplete"
    /\ \A i \in 1..(Len(cb) - 1) : cb[i].method = "onToken"

SingleError(cb) == Len(cb) = 1 /\ cb[1].method = "onError"

\* C1: once some loadModel has returned true, between calls g_model and g_ctx
\* are both null or both non-null.
C1_PairedLifecycle ==
    (LLAMA_AVAILABLE = 1 /\ ctxModel # {})
        => ((g_model = NULL) <=> (g_ctx = NULL))

\* C2: a loadModel call that returns false leaves g_model, g_ctx and the sets
\* of live native handles exactly as they were before the call.
C2_LoadFailureAtomic ==
    [][(lastOp' = "loadModel" /\ nCalls' = nCalls + 1
            /\ lastLoad' \in {"false_model", "false_ctx"})
        => (/\ g_model' = g_model
            /\ g_ctx' = g_ctx
            /\ liveModels' = liveModels
            /\ liveCtxs' = liveCtxs)]_vars

\* C3: at most one model handle and at most one context handle is alive
\* between calls, and none is alive after unloadModel returns.
C3_AtMostOneAlive ==
    /\ Cardinality(liveModels) <= 1
    /\ Cardinality(liveCtxs) <= 1
    /\ (lastOp = "unloadModel" => (liveModels = {} /\ liveCtxs = {}))

\* C4: while g_model or g_ctx is null, chatCompletion returns the
\* {"error":"Model not loaded"} payload and never a payload with choices.
C4_NotLoadedChat ==
    (lastOp = "chatCompletion" /\ (g_model = NULL \/ g_ctx = NULL))
        => (retChat = NotLoadedPayload /\ "choices" \notin DOMAIN retChat)

C4_Witness ==
    /\ lastOp = "chatCompletion"
    /\ g_model = NULL
    /\ g_ctx # NULL
    /\ retChat = NotLoadedPayload

\* C5: the callbacks of one chatCompletionStream call are either onToken*
\* followed by one onComplete, or exactly one onError.
C5_CallbackOrdering ==
    lastOp = "chatCompletionStream"
        => (TokensThenComplete(callbacks) \/ SingleError(callbacks))

C5_Witness ==
    /\ lastOp = "chatCompletionStream"
    /\ Len(callbacks) = 2
    /\ callbacks[1].method = "onToken"
    /\ callbacks[2].method = "onComplete"

\* C6: chatCompletionStream called while g_model or g_ctx is null makes
\* exactly one callback, onError("Model not loaded").
C6_StreamNotLoaded ==
    (lastOp = "chatCompletionStream" /\ (g_model = NULL \/ g_ctx = NULL))
        => callbacks = NotLoadedCallbacks

C6_Witness ==
    /\ lastOp = "chatCompletionStream"
    /\ g_model = NULL
    /\ g_ctx # NULL
    /\ callbacks = NotLoadedCallbacks

\* C7: unloadModel called with both globals null frees no handle and leaves
\* the globals null; an unloadModel right after an unloadModel changes nothing.
C7_UnloadIdempotent ==
    [][(lastOp' = "unloadModel" /\ nCalls' = nCalls + 1)
        => /\ (g_model = NULL /\ g_ctx = NULL)
                => /\ g_model' = NULL
                   /\ g_ctx' = NULL
                   /\ liveModels' = liveModels
                   /\ liveCtxs' = liveCtxs
                   /\ HandleFrees(nativeCalls') = <<>>
           /\ lastOp = "unloadModel"
                => /\ UNCHANGED <<g_model, g_ctx, liveModels, liveCtxs>>
                   /\ HandleFrees(nativeCalls') = <<>>]_vars

C7_Witness ==
    /\ LLAMA_AVAILABLE = 1
    /\ lastOp = "unloadModel"
    /\ backendFrees >= 2
    /\ nativeCalls = <<Call("llama_backend_free", NULL)>>
    /\ g_model = NULL
    /\ g_ctx = NULL

\* C8: after a loadModel that failed at the model step or at the context
\* step, until the next loadModel, chatCompletion reports not-loaded and
\* chatCompletionStream invokes only onError.
C8_NoLeakAfterFailedLoad ==
    lastLoad \in {"false_model", "false_ctx"}
        => /\ lastOp = "chatCompletion" => retChat = NotLoadedPayload
           /\ lastOp = "chatCompletionStream"
                => /\ Len(callbacks) >= 1
                   /\ \A i \in 1..Len(callbacks) : callbacks[i].method = "onError"

C8_Witness ==
    /\ lastLoad = "false_model"
    /\ liveModels # {}
    /\ lastOp = "chatCompletion"
    /\ retChat = NotLoadedPayload

\* C9: after loadModel returned true and until the next loadModel or
\* unloadModel, both globals are non-null and chatCompletion returns a
\* success-shaped payload.
C9_LoadedServable ==
    (lastLoad = "true" /\ ~unloadedSince)
        => /\ g_model # NULL
           /\ g_ctx # NULL
           /\ lastOp = "chatCompletion" => SuccessShaped(retChat)

C9_Witness ==
    /\ lastLoad = "true"
    /\ ~unloadedSince
    /\ lastOp = "chatCompletion"
    /\ SuccessShaped(retChat)

\* C10 (as stated): a build without the library returns from chatCompletion,
\* and delivers from chatCompletionStream, exactly what a build with the
\* library does when nothing is loaded.
C10_SameAsNotLoaded ==
    LLAMA_AVAILABLE = 0
        => /\ lastOp = "chatCompletion"
                => retChat = ChatCompletionResult(1, NULL, NULL)
           /\ lastOp = "chatCompletionStream"
                => callbacks = StreamCallbacks(1, NULL, NULL)

\* C10 (amended): a build without the library uses the same channels, an
\* error-only payload and a single onError, but with its own messages.
C10_SameChannelsOwnMessages ==
    LLAMA_AVAILABLE = 0
        => /\ lastOp = "chatCompletion"
                => /\ DOMAIN retChat = {"error"}
                   /\ retChat.error = "llama.cpp not available in this build"
                   /\ retChat # NotLoadedPayload
           /\ lastOp = "chatCompletionStream"
                => /\ SingleError(callbacks)
                   /\ callbacks[1].arg = "llama.cpp not available"
                   /\ callbacks # NotLoadedCallbacks

C10_Witness ==
    /\ LLAMA_AVAILABLE = 0
    /\ lastOp = "chatCompletionStream"
    /\ SingleError(callbacks)
    /\ lastLoad = "false_nolib"

\* C11: chatCompletionStream called with both globals non-null makes exactly
\* one onToken call, then one onComplete call carrying the final response,
\* and no onError call.
C11_StreamLoaded ==
    (LLAMA_AVAILABLE = 1 /\ lastOp = "chatCompletionStream"
        /\ g_model # NULL /\ g_ctx # NULL)
        => /\ Len(callbacks) = 2
           /\ callbacks[1].method = "onToken"
           /\ callbacks[2] = Callback("onComplete", StreamResponse)

C11_Witness ==
    /\ LLAMA_AVAILABLE = 1
    /\ lastOp = "chatCompletionStream"
    /\ g_model # NULL
    /\ g_ctx # NULL
    /\ Len(callbacks) = 2

\* Positions in cs of the calls to fn.
CallsTo(cs, fn) == {i \in 1..Len(cs) : cs[i].fn = fn}

\* C12: in unloadModel the held context is freed before the held model, the
\* backend release comes after both, and both globals are null on return.
C12_ReleaseOrder ==
    (LLAMA_AVAILABLE = 1 /\ lastOp = "unloadModel")
        => /\ g_ctx = NULL
           /\ g_model = NULL
           /\ CallsTo(nativeCalls, "llama_backend_free") = {Len(nativeCalls)}
           /\ \A i \in CallsTo(nativeCalls, "llama_free") :
                \A j \in CallsTo(nativeCalls, "llama_model_free") : i < j
           /\ \A j \in CallsTo(nativeCalls, "llama_model_free") :
                \A p \in ctxModel :
                    p[2] = nativeCalls[j].h => p[1] \notin liveCtxs

C12_Witness ==
    /\ LLAMA_AVAILABLE = 1
    /\ lastOp = "unloadModel"
    /\ Len(nativeCalls) = 3
    /\ nativeCalls[1].fn = "llama_free"
    /\ nativeCalls[2].fn = "llama_model_free"

\* C13: between calls the number of llama_backend_init calls minus the number
\* of llama_backend_free calls is 0 or 1.
C13_BackendBalanced ==
    backendInits - backendFrees \in {0, 1}

\* Handles of kind fn-created / fn-freed that are alive just before the i-th
\* native call of a JNI call that started with the live set `live`.
LiveAt(live, cs, i, create, free) ==
    (live \cup {cs[k].h : k \in {k \in 1..(i - 1) : cs[k].fn = create /\ cs[k].h # NULL}})
        \ {cs[k].h : k \in {k \in 1..(i - 1) : cs[k].fn = free}}

\* C15: every handle passed to llama_free or llama_model_free is alive at that
\* moment (created, not yet freed), and no model is freed while a context
\* built from it is alive.
C15_MemorySafeRelease ==
    [][nCalls' = nCalls + 1
        => \A i \in 1..Len(nativeCalls') :
            LET ctxs == LiveAt(liveCtxs, nativeCalls', i,
                               "llama_init_from_model", "llama_free")
                models == LiveAt(liveModels, nativeCalls', i,
                                 "llama_model_load_from_file", "llama_model_free")
                h == nativeCalls'[i].h
            IN /\ nativeCalls'[i].fn = "llama_free" => h \in ctxs
               /\ nativeCalls'[i].fn = "llama_model_free"
                    => /\ h \in models
                       /\ \A c \in ctxs : <<c, h>> \notin ctxModel']_vars

C15_Witness ==
    /\ lastOp = "unloadModel"
    /\ Len(HandleFrees(nativeCalls)) = 2
    /\ liveModels # {}
    /\ liveCtxs # {}

\* C16: chatCompletion and chatCompletionStream leave g_model, g_ctx, the
\* live handles and the backend init/free counts unchanged; any change to
\* them is made by loadModel or unloadModel.
C16_CompletionsReadOnly ==
    [][/\ (nCalls' = nCalls + 1
             /\ lastOp' \in {"chatCompletion", "chatCompletionStream"})
          => UNCHANGED <<g_model, g_ctx, liveModels, liveCtxs,
                         backendInits, backendFrees>>
       /\ ~(UNCHANGED <<g_model, g_ctx, liveModels, liveCtxs,
                        backendInits, backendFrees>>)
          => lastOp' \in {"loadModel", "unloadModel"}]_vars

C16_Witness ==
    /\ lastOp = "chatCompletion"
    /\ SuccessShaped(retChat)
    /\ g_model # NULL
    /\ backendInits = 1
    /\ backendFrees = 0

\* C14: with two threads and no lock a handle can be freed twice or a model
\* freed under a live context, and this happens only in runs where two calls
\* overlapped; runs whose calls are strictly serialized never reach it.
C14_UnsafeOnlyWhenOverlapped ==
    (doubleFree \/ freedUnderCtx) => overlapped

C14_Witness ==
    /\ doubleFree
    /\ overlapped
    /\ \A t \in Threads : pc[t] = "idle"

====
